---- MODULE Spec2Model ----
(***************************************************************************)
(* tinypdf: the document builder (pdf(): page, build), its drawing         *)
(* context (text, rect, line, image, link), the colour codec, the value    *)
(* serializer, the JPEG header parser and markdown(), from the first engine *)
(* of src/unnamed/part_000 (lines 1-347).                                  *)
(*                                                                         *)
(* Strings are sequences of UTF-16 code units (naturals), byte arrays are  *)
(* sequences of naturals 0..255.  Numbers handed to toFixed(2) are carried *)
(* in hundredths, so that the formatting is exact.                         *)
(***************************************************************************)
EXTENDS Integers, Sequences, FiniteSets, TLC

VARIABLES
    objects,      \* const objects: PDFObject[]
    pages,        \* const pages: Ref[]  (the ids of the page objects)
    nextId,       \* let nextId
    built,        \* let built
    stack,        \* the page() calls whose callback fn(ctx) is running, innermost last
    last,         \* the last call made on the document or a context, and how it ended
    result,       \* the bytes returned by the last build() call (<<>> when it threw)
    noPagesSeen,  \* history: some build() call has thrown 'PDF must have at least one page'
    draws,        \* number of calls made on a drawing context so far
    pageCalls,    \* number of page() calls made so far
    scanBytes,    \* parseJpeg: its argument bytes
    scanI,        \* parseJpeg: let i
    scanState,    \* parseJpeg: "idle" (not called), "start", "scan" (at the loop's test),
                  \* "returned" or "thrown"
    scanResult,   \* parseJpeg: the value it returned
    mdIn,         \* markdown: its arguments md and opts (W, H, M)
    mdPhase,      \* markdown: "idle" (not called), "classify", "paginate", "draw", "build"
                  \* or "done"
    mdRest,       \* markdown: the raw lines of md.split('\n') not yet classified
    prevType,     \* markdown: let prevType
    items,        \* markdown: const items
    wrapped,      \* markdown: the wrap call made for the line classified last
    itemK,        \* markdown: position of the pagination loop in items
    mdY,          \* markdown: let y
    pg,           \* markdown: let pg
    ys,           \* markdown: let ys
    mdPages,      \* markdown: const pages
    pageK         \* markdown: position of the drawing loop in pages

docVars ==
    <<objects, pages, nextId, built, stack, last, result, noPagesSeen, draws, pageCalls>>

scanVars ==
    <<scanBytes, scanI, scanState, scanResult>>

mdVars ==
    <<mdIn, mdPhase, mdRest, prevType, items, wrapped, itemK, mdY, pg, ys, mdPages, pageK>>

vars ==
    <<objects, pages, nextId, built, stack, last, result, noPagesSeen, draws, pageCalls,
      scanBytes, scanI, scanState, scanResult,
      mdIn, mdPhase, mdRest, prevType, items, wrapped, itemK, mdY, pg, ys, mdPages, pageK>>

-----------------------------------------------------------------------------
(* Bounds of the model *)

\* page() calls running at once (a callback may call page() itself)
MaxDepth ==
    2

\* drawing calls and page() calls on one document, in the document's life cycle
MaxDraws ==
    2

MaxPageCalls ==
    2

\* drawing calls and page() calls on one document, with the full range of arguments
MaxDrawCalls ==
    2

MaxDrawPages ==
    1

\* pieces of markdown text joined into one input
MaxMdChunks ==
    2

\* marker segments after the first two bytes of a parsed image
MaxSegs ==
    2

-----------------------------------------------------------------------------
(* Sequences and strings *)

RECURSIVE FlatRange(_, _, _)
FlatRange(ss, lo, hi) ==
    IF lo > hi THEN <<>>
    ELSE IF lo = hi THEN ss[lo]
    ELSE LET mid == (lo + hi) \div 2
         IN  FlatRange(ss, lo, mid) \o FlatRange(ss, mid + 1, hi)

\* the concatenation of a sequence of strings (s1 + s2 + ...)
Concat(ss) ==
    FlatRange(ss, 1, Len(ss))

\* Array.prototype.join
Join(ss, sep) ==
    Concat([i \in 1..Len(ss) |-> IF i = 1 THEN ss[i] ELSE sep \o ss[i]])

\* String.prototype.replace(/ch/g, repl)
ReplaceAll(s, ch, repl) ==
    Concat([i \in 1..Len(s) |-> IF s[i] = ch THEN repl ELSE <<s[i]>>])

\* String.prototype.startsWith for a one-character prefix
StartsWith(s, ch) ==
    Len(s) >= 1 /\ s[1] = ch

\* String.prototype.slice(from) with 0 <= from
SliceFrom(s, from) ==
    SubSeq(s, from + 1, Len(s))

RECURSIVE NatStr(_)
NatStr(n) ==
    IF n < 10 THEN <<48 + n>> ELSE NatStr(n \div 10) \o <<48 + (n % 10)>>

\* String(n) of an integer-valued number
IntStr(n) ==
    IF n < 0 THEN <<45>> \o NatStr(-n) ELSE NatStr(n)

\* String.prototype.padStart(n, ch)
PadStart(s, n, ch) ==
    IF Len(s) >= n THEN s ELSE [i \in 1..(n - Len(s)) |-> ch] \o s

\* Number.prototype.toFixed(2) of the number h / 100
ToFixed2(h) ==
    LET a == IF h < 0 THEN -h ELSE h
    IN  (IF h < 0 THEN <<45>> ELSE <<>>)
        \o NatStr(a \div 100) \o <<46>> \o PadStart(NatStr(a % 100), 2, 48)

\* Number.prototype.toFixed(3) of v / 255 for a channel v in 0..255: rounded to
\* the nearest thousandth (1000 v / 255 is never half way between two of them)
ToFixed3Channel(v) ==
    LET r == (2000 * v + 255) \div 510
    IN  NatStr(r \div 1000) \o <<46>> \o PadStart(NatStr(r % 1000), 3, 48)

\* TextEncoder.encode of one code unit (the model's strings stay below U+0800)
EncodeUnit(c) ==
    IF c < 128 THEN <<c>> ELSE <<192 + (c \div 64), 128 + (c % 64)>>

\* new TextEncoder().encode(str)
Encode(s) ==
    Concat([i \in 1..Len(s) |-> EncodeUnit(s[i])])

-----------------------------------------------------------------------------
(* String literals *)

\* the property names of the dictionaries the builder creates
Key ==
    [ Type |-> <<84, 121, 112, 101>>,
      Subtype |-> <<83, 117, 98, 116, 121, 112, 101>>,
      Width |-> <<87, 105, 100, 116, 104>>,
      Height |-> <<72, 101, 105, 103, 104, 116>>,
      ColorSpace |-> <<67, 111, 108, 111, 114, 83, 112, 97, 99, 101>>,
      BitsPerComponent |-> <<66, 105, 116, 115, 80, 101, 114, 67, 111, 109, 112, 111, 110, 101, 110, 116>>,
      Filter |-> <<70, 105, 108, 116, 101, 114>>,
      Length |-> <<76, 101, 110, 103, 116, 104>>,
      Rect |-> <<82, 101, 99, 116>>,
      Border |-> <<66, 111, 114, 100, 101, 114>>,
      A |-> <<65>>,
      S |-> <<83>>,
      URI |-> <<85, 82, 73>>,
      Parent |-> <<80, 97, 114, 101, 110, 116>>,
      MediaBox |-> <<77, 101, 100, 105, 97, 66, 111, 120>>,
      Contents |-> <<67, 111, 110, 116, 101, 110, 116, 115>>,
      Resources |-> <<82, 101, 115, 111, 117, 114, 99, 101, 115>>,
      Font |-> <<70, 111, 110, 116>>,
      F1 |-> <<70, 49>>,
      XObject |-> <<88, 79, 98, 106, 101, 99, 116>>,
      Annots |-> <<65, 110, 110, 111, 116, 115>>,
      BaseFont |-> <<66, 97, 115, 101, 70, 111, 110, 116>>,
      Kids |-> <<75, 105, 100, 115>>,
      Count |-> <<67, 111, 117, 110, 116>>,
      Pages |-> <<80, 97, 103, 101, 115>>,
      Size |-> <<83, 105, 122, 101>>,
      Root |-> <<82, 111, 111, 116>> ]

\* the string literals of the builder: names, content-stream operators, file syntax
Tok ==
    [ null |-> <<110, 117, 108, 108>>,   \* 'null'
      rg |-> <<114, 103>>,   \* 'rg'
      RG |-> <<82, 71>>,   \* 'RG'
      BT |-> <<66, 84>>,   \* 'BT'
      ET |-> <<69, 84>>,   \* 'ET'
      f |-> <<102>>,   \* 'f'
      S |-> <<83>>,   \* 'S'
      q |-> <<113>>,   \* 'q'
      Q |-> <<81>>,   \* 'Q'
      re |-> <<32, 114, 101>>,   \* ' re'
      w |-> <<32, 119>>,   \* ' w'
      m |-> <<32, 109>>,   \* ' m'
      l |-> <<32, 108>>,   \* ' l'
      Td |-> <<32, 84, 100>>,   \* ' Td'
      Tj |-> <<32, 84, 106>>,   \* ' Tj'
      Tf |-> <<32, 84, 102>>,   \* ' Tf'
      F1 |-> <<47, 70, 49, 32>>,   \* '/F1 '
      cm |-> <<32, 99, 109>>,   \* ' cm'
      Do |-> <<32, 68, 111>>,   \* ' Do'
      Im |-> <<47, 73, 109>>,   \* '/Im'
      zeros |-> <<32, 48, 32, 48, 32>>,   \* ' 0 0 '
      underlineWidth |-> <<48, 46, 55, 53, 32, 119>>,   \* '0.75 w'
      black |-> <<48, 46, 48, 48, 48, 32, 48, 46, 48, 48, 48, 32, 48, 46, 48, 48, 48, 32, 114, 103>>,   \* '0.000 0.000 0.000 rg'
      defaultColor |-> <<35, 48, 48, 48, 48, 48, 48>>,   \* '#000000'
      XObject |-> <<47, 88, 79, 98, 106, 101, 99, 116>>,   \* '/XObject'
      Image |-> <<47, 73, 109, 97, 103, 101>>,   \* '/Image'
      DCTDecode |-> <<47, 68, 67, 84, 68, 101, 99, 111, 100, 101>>,   \* '/DCTDecode'
      Annot |-> <<47, 65, 110, 110, 111, 116>>,   \* '/Annot'
      Link |-> <<47, 76, 105, 110, 107>>,   \* '/Link'
      Action |-> <<47, 65, 99, 116, 105, 111, 110>>,   \* '/Action'
      URI |-> <<47, 85, 82, 73>>,   \* '/URI'
      Page |-> <<47, 80, 97, 103, 101>>,   \* '/Page'
      Font |-> <<47, 70, 111, 110, 116>>,   \* '/Font'
      Type1 |-> <<47, 84, 121, 112, 101, 49>>,   \* '/Type1'
      Helvetica |-> <<47, 72, 101, 108, 118, 101, 116, 105, 99, 97>>,   \* '/Helvetica'
      Pages |-> <<47, 80, 97, 103, 101, 115>>,   \* '/Pages'
      Catalog |-> <<47, 67, 97, 116, 97, 108, 111, 103>>,   \* '/Catalog'
      header |-> <<37, 80, 68, 70, 45, 49, 46, 52, 10, 37, 255, 255, 255, 255, 10>>,   \* '%PDF-1.4\n%ÿÿÿÿ\n'
      obj |-> <<32, 48, 32, 111, 98, 106, 10>>,   \* ' 0 obj\n'
      stream |-> <<115, 116, 114, 101, 97, 109, 10>>,   \* 'stream\n'
      endstream |-> <<10, 101, 110, 100, 115, 116, 114, 101, 97, 109, 10, 101, 110, 100, 111, 98, 106, 10>>,   \* '\nendstream\nendobj\n'
      endobj |-> <<101, 110, 100, 111, 98, 106, 10>>,   \* 'endobj\n'
      xref |-> <<120, 114, 101, 102, 10, 48, 32>>,   \* 'xref\n0 '
      free |-> <<10, 48, 48, 48, 48, 48, 48, 48, 48, 48, 48, 32, 54, 53, 53, 51, 53, 32, 102, 32, 10>>,   \* '\n0000000000 65535 f \n'
      inuse |-> <<32, 48, 48, 48, 48, 48, 32, 110, 32, 10>>,   \* ' 00000 n \n'
      trailer |-> <<116, 114, 97, 105, 108, 101, 114, 10>>,   \* 'trailer\n'
      startxref |-> <<115, 116, 97, 114, 116, 120, 114, 101, 102, 10>>,   \* 'startxref\n'
      eof |-> <<10, 37, 37, 69, 79, 70, 10>>,   \* '\n%%EOF\n'
      R |-> <<32, 48, 32, 82>>,   \* ' 0 R'
      dictOpen |-> <<60, 60, 10>>,   \* '<<\n'
      dictClose |-> <<10, 62, 62>> ]   \* '\n>>'

-----------------------------------------------------------------------------
(* Text metrics *)

\* Helvetica widths, ASCII 32-126
WIDTHS ==
    << 278, 278, 355, 556, 556, 889, 667, 191, 333, 333, 389, 584, 278, 333, 278, 278,
       556, 556, 556, 556, 556, 556, 556, 556, 556, 556, 278, 278, 584, 584, 584, 556,
       1015, 667, 667, 722, 722, 667, 611, 778, 722, 278, 500, 667, 556, 833, 722, 778,
       667, 778, 722, 667, 611, 722, 667, 944, 667, 667, 611, 278, 278, 278, 469, 556,
       333, 556, 556, 500, 556, 556, 278, 556, 556, 222, 222, 500, 222, 833, 556, 556,
       556, 556, 333, 500, 278, 556, 500, 722, 500, 500, 500, 334, 260, 334, 584 >>

RECURSIVE SumWidths(_, _)
SumWidths(str, i) ==
    IF i > Len(str) THEN 0
    ELSE (IF str[i] >= 32 /\ str[i] <= 126 THEN WIDTHS[str[i] - 32 + 1] ELSE 556)
         + SumWidths(str, i + 1)

\* measureText(str, size) * 1000  (the division by 1000 is left to the caller)
measureText(str, size) ==
    SumWidths(str, 1) * size

-----------------------------------------------------------------------------
(* Colour codec *)

\* the argument `undefined` of an optional string parameter
Absent ==
    <<-1>>

\* 'none'
s_none ==
    <<110, 111, 110, 101>>

\* the character class [0-9a-fA-F]
IsHexDigit(c) ==
    \/ (c >= 48 /\ c <= 57)
    \/ (c >= 97 /\ c <= 102)
    \/ (c >= 65 /\ c <= 70)

\* parseInt of one hexadecimal digit
HexDigit(c) ==
    IF c <= 57 THEN c - 48 ELSE IF c >= 97 THEN c - 87 ELSE c - 55

\* parseInt(hex.slice(k, k + 2), 16)
HexByte(hex, k) ==
    16 * HexDigit(hex[k + 1]) + HexDigit(hex[k + 2])

\* /^[0-9a-fA-F]{6}$/.test(hex)
IsHex6(hex) ==
    Len(hex) = 6 /\ \A i \in 1..6 : IsHexDigit(hex[i])

\* hex.replace(/^#/, '')
StripHash(hex) ==
    IF StartsWith(hex, 35) THEN SliceFrom(hex, 1) ELSE hex

\* if (hex.length === 3) hex = hex[0] + hex[0] + hex[1] + hex[1] + hex[2] + hex[2]
Expand3(hex) ==
    IF Len(hex) = 3 THEN <<hex[1], hex[1], hex[2], hex[2], hex[3], hex[3]>> ELSE hex

\* the result null of parseColor
NoColor ==
    <<>>

\* parseColor that tests the length only, not the digits
parseColor_LengthOnly(hex) ==
    IF hex = Absent \/ hex = <<>> \/ hex = s_none THEN NoColor
    ELSE LET h == Expand3(StripHash(hex))
         IN  IF Len(h) # 6 THEN NoColor
             ELSE <<HexByte(h, 0), HexByte(h, 2), HexByte(h, 4)>>

\* parseColor(hex): the three channels as numerators over 255, or NoColor
parseColor(hex) ==
    IF hex = Absent \/ hex = <<>> \/ hex = s_none THEN NoColor
    ELSE LET h == Expand3(StripHash(hex))
         IN  IF ~IsHex6(h) THEN NoColor
             ELSE <<HexByte(h, 0), HexByte(h, 2), HexByte(h, 4)>>

\* colorOp(rgb, op): '' when rgb is null
colorOp(rgb, op) ==
    IF rgb = NoColor THEN <<>>
    ELSE ToFixed3Channel(rgb[1]) \o <<32>> \o ToFixed3Channel(rgb[2]) \o <<32>>
         \o ToFixed3Channel(rgb[3]) \o <<32>> \o op

-----------------------------------------------------------------------------
(* JPEG header parser *)

s_DeviceGray ==
    <<47, 68, 101, 118, 105, 99, 101, 71, 114, 97, 121>>

s_DeviceCMYK ==
    <<47, 68, 101, 118, 105, 99, 101, 67, 77, 89, 75>>

s_DeviceRGB ==
    <<47, 68, 101, 118, 105, 99, 101, 82, 71, 66>>

\* bytes[i] of a Uint8Array (0-based)
At(bytes, i) ==
    bytes[i + 1]

\* (bytes[i] << 8) | bytes[i + 1]
Word16(bytes, i) ==
    256 * At(bytes, i) + At(bytes, i + 1)

\* the loop's body without `if (marker === 0xDA) break`
ScanBody_NoSosBreak(bytes, i) ==
    LET go(k, j, w, h, cs) == [k |-> k, i |-> j, width |-> w, height |-> h, colorSpace |-> cs]
        marker == At(bytes, i + 1)
        skip == IF i + 3 >= Len(bytes) THEN go("break", i, 0, 0, <<>>)
                ELSE go("next", i + 2 + Word16(bytes, i + 2), 0, 0, <<>>)
    IN  IF At(bytes, i) # 255 THEN go("next", i + 1, 0, 0, <<>>)
        ELSE IF marker = 192 \/ marker = 194
             THEN IF i + 9 >= Len(bytes) THEN go("break", i, 0, 0, <<>>)
                  ELSE LET height == Word16(bytes, i + 5)
                           width == Word16(bytes, i + 7)
                           c == At(bytes, i + 9)
                       IN  IF width # 0 /\ height # 0
                           THEN go("return", i, width, height,
                                   IF c = 1 THEN s_DeviceGray
                                   ELSE IF c = 4 THEN s_DeviceCMYK ELSE s_DeviceRGB)
                           ELSE skip
        ELSE skip

\* the loop's body with `i += len` in place of `i += 2 + len`
ScanBody_SkipsLengthOnly(bytes, i) ==
    LET b == ScanBody_NoSosBreak(bytes, i)
        marker == At(bytes, i + 1)
    IN  IF At(bytes, i) # 255 THEN b
        ELSE IF marker = 218 THEN [b EXCEPT !.k = "break", !.i = i]
        ELSE IF b.k = "next" THEN [b EXCEPT !.i = i + Word16(bytes, i + 2)]
        ELSE b

\* what one evaluation of the scan loop's body does at index i (i < bytes.length - 1):
\* "next" continues the loop at .i, "break" leaves it, "return" returns the header
ScanBody(bytes, i) ==
    LET go(k, j, w, h, cs) == [k |-> k, i |-> j, width |-> w, height |-> h, colorSpace |-> cs]
        marker == At(bytes, i + 1)
        skip == IF i + 3 >= Len(bytes) THEN go("break", i, 0, 0, <<>>)
                ELSE go("next", i + 2 + Word16(bytes, i + 2), 0, 0, <<>>)
    IN  IF At(bytes, i) # 255 THEN go("next", i + 1, 0, 0, <<>>)
        ELSE IF marker = 218 THEN go("break", i, 0, 0, <<>>)
        ELSE IF marker = 192 \/ marker = 194
             THEN IF i + 9 >= Len(bytes) THEN go("break", i, 0, 0, <<>>)
                  ELSE LET height == Word16(bytes, i + 5)
                           width == Word16(bytes, i + 7)
                           c == At(bytes, i + 9)
                       IN  IF width # 0 /\ height # 0
                           THEN go("return", i, width, height,
                                   IF c = 1 THEN s_DeviceGray
                                   ELSE IF c = 4 THEN s_DeviceCMYK ELSE s_DeviceRGB)
                           ELSE skip
        ELSE skip

\* throw new Error('Invalid JPEG: ...')
JpegError ==
    [ok |-> FALSE, width |-> 0, height |-> 0, colorSpace |-> <<>>]

\* if (bytes.length < 2 || bytes[0] !== 0xFF || bytes[1] !== 0xD8)
MissingSOI(bytes) ==
    Len(bytes) < 2 \/ At(bytes, 0) # 255 \/ At(bytes, 1) # 216

\* the scan loop from index i to its end
RECURSIVE ScanFrom(_, _)
ScanFrom(bytes, i) ==
    IF ~(i < Len(bytes) - 1) THEN JpegError
    ELSE LET b == ScanBody(bytes, i)
         IN  IF b.k = "return"
             THEN [ok |-> TRUE, width |-> b.width, height |-> b.height,
                   colorSpace |-> b.colorSpace]
             ELSE IF b.k = "break" THEN JpegError
             ELSE ScanFrom(bytes, b.i)

\* parseJpeg(bytes): .ok is FALSE when it throws
parseJpeg(bytes) ==
    IF MissingSOI(bytes) THEN JpegError ELSE ScanFrom(bytes, 2)

-----------------------------------------------------------------------------
(* PDF values and the value serializer *)

\* a PDFValue: t is its variant, n a number or a Ref's id, s a string, a the
\* elements of an array or the entries (k: property name, v: value) of an object
Val(t, n, s, a) ==
    [t |-> t, n |-> n, s |-> s, a |-> a]

Null ==
    Val("null", 0, <<>>, <<>>)

Undefined ==
    Val("undefined", 0, <<>>, <<>>)

Num(n) ==
    Val("number", n, <<>>, <<>>)

Str(s) ==
    Val("string", 0, s, <<>>)

Arr(a) ==
    Val("array", 0, <<>>, a)

\* new Ref(id)
Ref(id) ==
    Val("ref", id, <<>>, <<>>)

Dict(entries) ==
    Val("object", 0, <<>>, entries)

\* the array `pages` itself (the pages tree's Kids is that array, not a copy)
PagesArray ==
    Val("pages", 0, <<>>, <<>>)

Entry(k, v) ==
    [k |-> k, v |-> v]

\* dict[k]
Get(dict, k) ==
    IF \E i \in 1..Len(dict.a) : dict.a[i].k = k
    THEN dict.a[CHOOSE i \in 1..Len(dict.a) : dict.a[i].k = k].v
    ELSE Undefined

\* dict[k] = v
Set(dict, k, v) ==
    IF \E i \in 1..Len(dict.a) : dict.a[i].k = k
    THEN Dict([i \in 1..Len(dict.a) |-> IF dict.a[i].k = k THEN Entry(k, v) ELSE dict.a[i]])
    ELSE Dict(Append(dict.a, Entry(k, v)))

\* a value in a condition: if (v)
Truthy(v) ==
    /\ v.t \notin {"null", "undefined"}
    /\ ~(v.t = "number" /\ v.n = 0)
    /\ ~(v.t = "string" /\ v.s = <<>>)

\* pdfString(str)
pdfString(str) ==
    <<40>>
    \o ReplaceAll(ReplaceAll(ReplaceAll(ReplaceAll(ReplaceAll(str,
           92, <<92, 92>>),
           40, <<92, 40>>),
           41, <<92, 41>>),
           13, <<92, 114>>),
           10, <<92, 110>>)
    \o <<41>>

\* serialize(val); the page list is read where val is the array `pages`
RECURSIVE serialize(_)
serialize(val) ==
    IF val.t = "null" \/ val.t = "undefined" THEN Tok.null
    ELSE IF val.t = "number" THEN IntStr(val.n)
    ELSE IF val.t = "string"
         THEN IF StartsWith(val.s, 47) THEN val.s
              ELSE IF StartsWith(val.s, 40) THEN val.s
              ELSE pdfString(val.s)
    ELSE IF val.t = "array"
         THEN <<91>> \o Join([i \in 1..Len(val.a) |-> serialize(val.a[i])], <<32>>) \o <<93>>
    ELSE IF val.t = "pages"
         THEN <<91>> \o Join([i \in 1..Len(pages) |-> serialize(Ref(pages[i]))], <<32>>) \o <<93>>
    ELSE IF val.t = "ref" THEN IntStr(val.n) \o Tok.R
    ELSE LET kept == SelectSeq(val.a, LAMBDA e : e.v.t # "undefined")
             pairs == [i \in 1..Len(kept) |-> <<47>> \o kept[i].k \o <<32>> \o serialize(kept[i].v)]
         IN  Tok.dictOpen \o Join(pairs, <<10>>) \o Tok.dictClose

-----------------------------------------------------------------------------
(* The document: objects and pages *)

\* stream: null
NoStream ==
    [present |-> FALSE, bytes |-> <<>>]

\* stream: a Uint8Array
Stream(bytes) ==
    [present |-> TRUE, bytes |-> bytes]

\* addObject with `const id = nextId` in place of `const id = nextId++`
addObject_NoIncrement(d, dict, streamBytes) ==
    [objects |-> Append(d.objects, [id |-> d.nextId, dict |-> dict, stream |-> streamBytes]),
     nextId |-> d.nextId,
     ref |-> d.nextId]

\* addObject(dict, streamBytes) on the document d = [objects, nextId]; .ref is the
\* id of the Ref it returns
addObject(d, dict, streamBytes) ==
    [objects |-> Append(d.objects, [id |-> d.nextId, dict |-> dict, stream |-> streamBytes]),
     nextId |-> d.nextId + 1,
     ref |-> d.nextId]

\* the locals of one page() call: width, height, ops, images, links, imageCount
NewFrame(width, height) ==
    [width |-> width, height |-> height, ops |-> <<>>, images |-> <<>>,
     links |-> <<>>, imageCount |-> 0]

\* opts of text(): align, width (hasWidth is FALSE when it is undefined) and color
TextOpts(align, hasWidth, width, color) ==
    [align |-> align, hasWidth |-> hasWidth, width |-> width, color |-> color]

\* ctx.text(str, x, y, size, opts): the operators it pushes
text(str, x, y, size, opts) ==
    LET color == IF opts.color = Absent THEN Tok.defaultColor ELSE opts.color
        tw == measureText(str, size)
        tx == IF opts.align # "left" /\ opts.hasWidth
              THEN IF opts.align = "center" THEN 100 * x + (1000 * opts.width - tw) \div 20
                   ELSE IF opts.align = "right" THEN 100 * x + 100 * opts.width - tw \div 10
                   ELSE 100 * x
              ELSE 100 * x
        c0 == colorOp(parseColor(color), Tok.rg)
        c == IF c0 # <<>> THEN c0 ELSE Tok.black
    IN  << c, Tok.BT, Tok.F1 \o IntStr(size) \o Tok.Tf,
           ToFixed2(tx) \o <<32>> \o ToFixed2(100 * y) \o Tok.Td,
           pdfString(str) \o Tok.Tj, Tok.ET >>

\* ctx.rect(x, y, w, h, fill): the operators it pushes
rect(x, y, w, h, fill) ==
    LET c == colorOp(parseColor(fill), Tok.rg)
    IN  IF c # <<>>
        THEN << c,
                ToFixed2(100 * x) \o <<32>> \o ToFixed2(100 * y) \o <<32>>
                \o ToFixed2(100 * w) \o <<32>> \o ToFixed2(100 * h) \o Tok.re,
                Tok.f >>
        ELSE <<>>

\* ctx.line(x1, y1, x2, y2, stroke, lineWidth): the operators it pushes; lineWidth is
\* in hundredths
line(x1, y1, x2, y2, stroke, lineWidth) ==
    LET c == colorOp(parseColor(stroke), Tok.RG)
    IN  IF c # <<>>
        THEN << ToFixed2(lineWidth) \o Tok.w, c,
                ToFixed2(100 * x1) \o <<32>> \o ToFixed2(100 * y1) \o Tok.m,
                ToFixed2(100 * x2) \o <<32>> \o ToFixed2(100 * y2) \o Tok.l,
                Tok.S >>
        ELSE <<>>

\* ctx.link(url, x, y, w, h, opts): the operators it pushes for opts.underline
link(x, y, w, h, underline) ==
    IF underline # Absent /\ underline # <<>>
    THEN LET c == colorOp(parseColor(underline), Tok.RG)
         IN  IF c # <<>>
             THEN << Tok.underlineWidth, c,
                     ToFixed2(100 * x) \o <<32>> \o ToFixed2(100 * (y + 2)) \o Tok.m,
                     ToFixed2(100 * (x + w)) \o <<32>> \o ToFixed2(100 * (y + 2)) \o Tok.l,
                     Tok.S >>
             ELSE <<>>
    ELSE <<>>

\* links.push({ url, rect: [x, y, x + w, y + h] })
LinkEntry(url, x, y, w, h) ==
    [url |-> url, rect |-> <<x, y, x + w, y + h>>]

\* the dictionary of an image object
ImageDict(hdr, length) ==
    Dict(<< Entry(Key.Type, Str(Tok.XObject)), Entry(Key.Subtype, Str(Tok.Image)),
            Entry(Key.Width, Num(hdr.width)), Entry(Key.Height, Num(hdr.height)),
            Entry(Key.ColorSpace, Str(hdr.colorSpace)), Entry(Key.BitsPerComponent, Num(8)),
            Entry(Key.Filter, Str(Tok.DCTDecode)), Entry(Key.Length, Num(length)) >>)

\* `/Im${imageCount++}`
ImageName(imageCount) ==
    Tok.Im \o IntStr(imageCount)

\* ctx.image(jpegBytes, x, y, w, h): the operators it pushes
image(imgName, x, y, w, h) ==
    << Tok.q,
       ToFixed2(100 * w) \o Tok.zeros \o ToFixed2(100 * h) \o <<32>>
       \o ToFixed2(100 * x) \o <<32>> \o ToFixed2(100 * y) \o Tok.cm,
       imgName \o Tok.Do,
       Tok.Q >>

\* the dictionary of a link annotation
AnnotDict(lnk) ==
    Dict(<< Entry(Key.Type, Str(Tok.Annot)), Entry(Key.Subtype, Str(Tok.Link)),
            Entry(Key.Rect, Arr([i \in 1..4 |-> Num(lnk.rect[i])])),
            Entry(Key.Border, Arr(<<Num(0), Num(0), Num(0)>>)),
            Entry(Key.A, Dict(<< Entry(Key.Type, Str(Tok.Action)), Entry(Key.S, Str(Tok.URI)),
                                 Entry(Key.URI, Str(lnk.url)) >>)) >>)

\* links.map(lnk => addObject(...)) from the k-th link on; .refs collects the ids
RECURSIVE AddAnnots(_, _, _)
AddAnnots(d, links, k) ==
    IF k > Len(links) THEN d
    ELSE LET n == addObject(d, AnnotDict(links[k]), NoStream)
         IN  AddAnnots([objects |-> n.objects, nextId |-> n.nextId,
                        refs |-> Append(d.refs, n.ref)], links, k + 1)

\* for (const img of images) xobjects[img.name.slice(1)] = img.ref
XObjects(images) ==
    Dict([i \in 1..Len(images) |-> Entry(SliceFrom(images[i].name, 1), Ref(images[i].ref))])

\* the dictionary of a page object
PageDict(frame, contentRef, annots) ==
    Dict(<< Entry(Key.Type, Str(Tok.Page)), Entry(Key.Parent, Null),
            Entry(Key.MediaBox, Arr(<<Num(0), Num(0), Num(frame.width), Num(frame.height)>>)),
            Entry(Key.Contents, Ref(contentRef)),
            Entry(Key.Resources,
                  Dict(<< Entry(Key.Font, Dict(<<Entry(Key.F1, Null)>>)),
                          Entry(Key.XObject, IF Len(frame.images) > 0 THEN XObjects(frame.images)
                                             ELSE Undefined) >>)),
            Entry(Key.Annots, IF Len(annots) > 0 THEN Arr([i \in 1..Len(annots) |-> Ref(annots[i])])
                              ELSE Undefined) >>)

\* page(), after fn(ctx) has returned, on the document d: the content stream, the
\* annotations and the page object; .ref is the new page's id
FinishPage(d, frame) ==
    LET content == Join(frame.ops, <<10>>)
        contentBytes == Encode(content)
        c == addObject(d, Dict(<<Entry(Key.Length, Num(Len(contentBytes)))>>),
                       Stream(contentBytes))
        a == AddAnnots([objects |-> c.objects, nextId |-> c.nextId, refs |-> <<>>],
                       frame.links, 1)
    IN  addObject(a, PageDict(frame, c.ref, a.refs), NoStream)

-----------------------------------------------------------------------------
(* build() *)

\* the backfill without `resources.Font.F1 = fontRef`
Backfill_ParentOnly(obj, pagesRef, fontRef) ==
    LET type == Get(obj.dict, Key.Type)
    IN  IF type.t = "string" /\ type.s = Tok.Page
        THEN [obj EXCEPT !.dict = Set(obj.dict, Key.Parent, Ref(pagesRef))]
        ELSE obj

\* if (obj.dict.Type === '/Page') { obj.dict.Parent = pagesRef; ...F1 = fontRef }
Backfill(obj, pagesRef, fontRef) ==
    LET type == Get(obj.dict, Key.Type)
    IN  IF type.t = "string" /\ type.s = Tok.Page
        THEN LET d1 == Set(obj.dict, Key.Parent, Ref(pagesRef))
                 resources == Get(d1, Key.Resources)
                 font == IF resources.t = "object" THEN Get(resources, Key.Font) ELSE Undefined
             IN  IF Truthy(font)
                 THEN [obj EXCEPT !.dict =
                          Set(d1, Key.Resources,
                              Set(resources, Key.Font, Set(font, Key.F1, Ref(fontRef))))]
                 ELSE [obj EXCEPT !.dict = d1]
        ELSE obj

\* the writer's state: chunks, byteOffset and offsets (indexed by object id)
EmptyOutput ==
    [chunks |-> <<>>, byteOffset |-> 0, offsets |-> <<>>]

\* push with `byteOffset += data.length` in place of `byteOffset += bytes.length`
push_CountsChars(out, data, isString) ==
    LET bytes == IF isString THEN Encode(data) ELSE data
    IN  [out EXCEPT !.chunks = Append(@, bytes), !.byteOffset = @ + Len(data)]

\* push(data): a string is encoded first
push(out, data, isString) ==
    LET bytes == IF isString THEN Encode(data) ELSE data
    IN  [out EXCEPT !.chunks = Append(@, bytes), !.byteOffset = @ + Len(bytes)]

\* offsets[id] = byteOffset  (an array assignment: the array grows to hold index id)
SetOffset(out, id) ==
    [out EXCEPT !.offsets = [i \in 1..(IF id > Len(@) THEN id ELSE Len(@)) |->
                                IF i = id THEN out.byteOffset
                                ELSE IF i <= Len(@) THEN @[i] ELSE -1]]

\* the writer with `if (obj.stream?.length)` in place of `if (obj.stream)`
WriteObject_EmptyStreamSkipped(out, obj) ==
    LET head == IntStr(obj.id) \o Tok.obj \o serialize(obj.dict) \o <<10>>
    IN  IF obj.stream.present /\ Len(obj.stream.bytes) > 0
        THEN push(push(push(out, head \o Tok.stream, TRUE), obj.stream.bytes, FALSE),
                  Tok.endstream, TRUE)
        ELSE push(out, head \o Tok.endobj, TRUE)

\* the bytes written for one object: its head, its dictionary, its stream if any
WriteObject(out, obj) ==
    LET head == IntStr(obj.id) \o Tok.obj \o serialize(obj.dict) \o <<10>>
    IN  IF obj.stream.present
        THEN push(push(push(out, head \o Tok.stream, TRUE), obj.stream.bytes, FALSE),
                  Tok.endstream, TRUE)
        ELSE push(out, head \o Tok.endobj, TRUE)

\* for (const obj of objects) { offsets[obj.id] = byteOffset; ... } from the k-th on
RECURSIVE WriteObjects(_, _, _)
WriteObjects(out, objs, k) ==
    IF k > Len(objs) THEN out
    ELSE WriteObjects(WriteObject(SetOffset(out, objs[k].id), objs[k]), objs, k + 1)

\* String(offsets[i]).padStart(10, '0') + ' 00000 n \n'; a hole of the array prints
\* as 'undefined'
XrefEntry(offsets, i) ==
    PadStart(IF i <= Len(offsets) /\ offsets[i] >= 0 THEN IntStr(offsets[i])
             ELSE <<117, 110, 100, 101, 102, 105, 110, 101, 100>>, 10, 48)
    \o Tok.inuse

\* the serialization of build(): the header, the objects, the cross-reference
\* table, the trailer and the startxref pointer
WriteFile(objs, catalogRef) ==
    LET o1 == push(EmptyOutput, Tok.header, TRUE)
        o2 == WriteObjects(o1, objs, 1)
        xrefOffset == o2.byteOffset
        xref == Tok.xref \o IntStr(Len(objs) + 1) \o Tok.free
                \o Concat([i \in 1..Len(objs) |-> XrefEntry(o2.offsets, i)])
        o3 == push(o2, xref, TRUE)
        o4 == push(o3, Tok.trailer
                       \o serialize(Dict(<< Entry(Key.Size, Num(Len(objs) + 1)),
                                            Entry(Key.Root, Ref(catalogRef)) >>))
                       \o <<10>>, TRUE)
        o5 == push(o4, Tok.startxref \o IntStr(xrefOffset) \o Tok.eof, TRUE)
    IN  Concat(o5.chunks)

\* build() past its two guards, on the document d: the font, the pages tree, the
\* backfill of the pages and the catalog
FinishObjects(d) ==
    LET f == addObject(d, Dict(<< Entry(Key.Type, Str(Tok.Font)), Entry(Key.Subtype, Str(Tok.Type1)),
                                  Entry(Key.BaseFont, Str(Tok.Helvetica)) >>), NoStream)
        p == addObject(f, Dict(<< Entry(Key.Type, Str(Tok.Pages)), Entry(Key.Kids, PagesArray),
                                  Entry(Key.Count, Num(Len(pages))) >>), NoStream)
        filled == [objects |-> [i \in 1..Len(p.objects) |-> Backfill(p.objects[i], p.ref, f.ref)],
                   nextId |-> p.nextId]
    IN  addObject(filled, Dict(<< Entry(Key.Type, Str(Tok.Catalog)), Entry(Key.Pages, Ref(p.ref)) >>),
                  NoStream)

-----------------------------------------------------------------------------
(* markdown(): text wrapping *)

\* \s, and the characters trimEnd and trim remove
IsSpace(c) ==
    c \in {9, 10, 11, 12, 13, 32, 160, 5760, 8232, 8233, 8239, 8287, 12288, 65279}
          \cup (8192..8202)

\* \d
IsDecimal(c) ==
    c >= 48 /\ c <= 57

\* String.prototype.split(ch) for a one-character separator
RECURSIVE Split(_, _)
Split(s, ch) ==
    IF \E i \in 1..Len(s) : s[i] = ch
    THEN LET i == CHOOSE j \in 1..Len(s) : s[j] = ch /\ \A k \in 1..(j - 1) : s[k] # ch
         IN  <<SubSeq(s, 1, i - 1)>> \o Split(SubSeq(s, i + 1, Len(s)), ch)
    ELSE <<s>>

\* String.prototype.trimEnd
RECURSIVE TrimEnd(_)
TrimEnd(s) ==
    IF s # <<>> /\ IsSpace(s[Len(s)]) THEN TrimEnd(SubSeq(s, 1, Len(s) - 1)) ELSE s

\* String.prototype.trim of a string that trimEnd has been applied to
RECURSIVE Trim(_)
Trim(s) ==
    IF s # <<>> /\ IsSpace(s[1]) THEN Trim(Tail(s)) ELSE TrimEnd(s)

\* the characters `for (const ch of word)` visits: code points, a surrogate pair
\* being one character of two code units
RECURSIVE CodePoints(_)
CodePoints(s) ==
    IF s = <<>> THEN <<>>
    ELSE IF /\ Len(s) >= 2
            /\ s[1] >= 55296 /\ s[1] <= 56319
            /\ s[2] >= 56320 /\ s[2] <= 57343
         THEN <<SubSeq(s, 1, 2)>> \o CodePoints(SubSeq(s, 3, Len(s)))
         ELSE <<SubSeq(s, 1, 1)>> \o CodePoints(Tail(s))

\* measureText(str, size) > maxW
Exceeds(str, size, maxW) ==
    measureText(str, size) > 1000 * maxW

\* the inner loop of wrap from the k-th character of the word on: a chunk is
\* pushed when the next character would take it over maxW
RECURSIVE SplitChunks(_, _, _, _, _, _)
SplitChunks(chars, k, lines, chunk, size, maxW) ==
    IF k > Len(chars) THEN [lines |-> lines, line |-> chunk]
    ELSE IF Exceeds(chunk \o chars[k], size, maxW) /\ chunk # <<>>
         THEN SplitChunks(chars, k + 1, Append(lines, chunk), chars[k], size, maxW)
         ELSE SplitChunks(chars, k + 1, lines, chunk \o chars[k], size, maxW)

\* the body of wrap's loop without the branch that splits an oversized word
WordStep_NoSplit(st, word, size, maxW) ==
    LET test == IF st.line # <<>> THEN st.line \o <<32>> \o word ELSE word
    IN  IF ~Exceeds(test, size, maxW) THEN [st EXCEPT !.line = test]
        ELSE [lines |-> IF st.line # <<>> THEN Append(st.lines, st.line) ELSE st.lines,
              line |-> word]

\* the body of wrap's loop for one word; st holds `lines` and `line`
WordStep(st, word, size, maxW) ==
    IF Exceeds(word, size, maxW)
    THEN SplitChunks(CodePoints(word), 1,
                     IF st.line # <<>> THEN Append(st.lines, st.line) ELSE st.lines,
                     <<>>, size, maxW)
    ELSE LET test == IF st.line # <<>> THEN st.line \o <<32>> \o word ELSE word
         IN  IF ~Exceeds(test, size, maxW) THEN [st EXCEPT !.line = test]
             ELSE [lines |-> IF st.line # <<>> THEN Append(st.lines, st.line) ELSE st.lines,
                   line |-> word]

\* wrap's loop from the k-th word on
RECURSIVE WrapWords(_, _, _, _, _)
WrapWords(words, k, st, size, maxW) ==
    IF k > Len(words) THEN st
    ELSE WrapWords(words, k + 1, WordStep(st, words[k], size, maxW), size, maxW)

\* wrap(text, size, maxW)
wrap(str, size, maxW) ==
    LET st == WrapWords(Split(str, 32), 1, [lines |-> <<>>, line |-> <<>>], size, maxW)
        lines == IF st.line # <<>> THEN Append(st.lines, st.line) ELSE st.lines
    IN  IF Len(lines) > 0 THEN lines ELSE << <<>> >>

-----------------------------------------------------------------------------
(* markdown(): block classification *)

\* the colour of headers and paragraphs: '#111111'
s_textColor ==
    <<35, 49, 49, 49, 49, 49, 49>>

\* the colour of rules: '#e0e0e0'
s_ruleColor ==
    <<35, 101, 48, 101, 48, 101, 48>>

\* an element of `items`; color is Absent when the item has none
Item(txt, size, indent, spaceBefore, spaceAfter, rule, color) ==
    [text |-> txt, size |-> size, indent |-> indent, spaceBefore |-> spaceBefore,
     spaceAfter |-> spaceAfter, rule |-> rule, color |-> color]

\* line.match(/^#+/)[0].length, counted from the k-th character on
RECURSIVE CountHashes(_, _)
CountHashes(s, k) ==
    IF k <= Len(s) /\ s[k] = 35 THEN 1 + CountHashes(s, k + 1) ELSE 0

LeadingHashes(s) ==
    CountHashes(s, 1)

\* line.match(/^\d+/)[0].length, counted from the k-th character on
RECURSIVE CountDigits(_, _)
CountDigits(s, k) ==
    IF k <= Len(s) /\ IsDecimal(s[k]) THEN 1 + CountDigits(s, k + 1) ELSE 0

LeadingDigits(s) ==
    CountDigits(s, 1)

\* /^#{1,6}\s/.test(line): the character after the hashes is not a hash, so the
\* pattern matches only with all of them, and there are at most 6
IsHeader(s) ==
    LET n == LeadingHashes(s)
    IN  n >= 1 /\ n <= 6 /\ Len(s) > n /\ IsSpace(s[n + 1])

\* /^[-*]\s/.test(line)
IsBullet(s) ==
    Len(s) >= 2 /\ s[1] \in {45, 42} /\ IsSpace(s[2])

\* /^\d+\.\s/.test(line)
IsOrdered(s) ==
    LET n == LeadingDigits(s)
    IN  n >= 1 /\ Len(s) >= n + 2 /\ s[n + 1] = 46 /\ IsSpace(s[n + 2])

\* /^(-{3,}|\*{3,}|_{3,})$/.test(line)
IsRule(s) ==
    /\ Len(s) >= 3
    /\ s[1] \in {45, 42, 95}
    /\ \A i \in 1..Len(s) : s[i] = s[1]

\* no wrap call was made
NoWrap ==
    [called |-> FALSE, text |-> <<>>, size |-> 0, maxW |-> 0, lines |-> <<>>]

\* the wrap call made for a block
Wrapped(str, size, maxW) ==
    [called |-> TRUE, text |-> str, size |-> size, maxW |-> maxW,
     lines |-> wrap(str, size, maxW)]

\* the blank-line branch that tests prevType against 'start' only
BlankItems_StartOnly(prev) ==
    IF prev # "start" THEN <<Item(<<>>, 11, 0, 0, 4, FALSE, Absent)>> ELSE <<>>

\* the items pushed for a blank line
BlankItems(prev) ==
    IF prev # "start" /\ prev # "blank"
    THEN <<Item(<<>>, 11, 0, 0, 4, FALSE, Absent)>>
    ELSE <<>>

\* the body of the classification loop for one raw line: the items it pushes, the
\* new prevType and the wrap call it makes; textW is W - M * 2
Classify(raw, prev, textW) ==
    LET ln == TrimEnd(raw)
        out(its, type, w) == [items |-> its, prevType |-> type, wrapped |-> w]
    IN  IF IsHeader(ln)
        THEN LET rawLvl == LeadingHashes(ln)
                 lvl == IF rawLvl < 3 THEN rawLvl ELSE 3
                 size == <<22, 16, 13>>[lvl]
                 before == IF prev = "start" THEN 0 ELSE <<14, 12, 10>>[lvl]
                 w == Wrapped(SliceFrom(ln, rawLvl + 1), size, textW)
             IN  out([i \in 1..Len(w.lines) |->
                        Item(w.lines[i], size, 0, IF i = 1 THEN before ELSE 0, 4, FALSE,
                             s_textColor)],
                     "header", w)
        ELSE IF IsBullet(ln)
        THEN LET w == Wrapped(SliceFrom(ln, 2), 11, textW - 18)
             IN  out([i \in 1..Len(w.lines) |->
                        Item((IF i = 1 THEN <<45, 32>> ELSE <<32, 32>>) \o w.lines[i],
                             11, 12, 0, 2, FALSE, Absent)],
                     "list", w)
        ELSE IF IsOrdered(ln)
        THEN LET num == SubSeq(ln, 1, LeadingDigits(ln))
                 w == Wrapped(SliceFrom(ln, Len(num) + 2), 11, textW - 18)
             IN  out([i \in 1..Len(w.lines) |->
                        Item((IF i = 1 THEN num \o <<46, 32>> ELSE <<32, 32, 32>>) \o w.lines[i],
                             11, 12, 0, 2, FALSE, Absent)],
                     "list", w)
        ELSE IF IsRule(ln)
        THEN out(<<Item(<<>>, 11, 0, 8, 8, TRUE, Absent)>>, "rule", NoWrap)
        ELSE IF Trim(ln) = <<>>
        THEN out(BlankItems(prev), "blank", NoWrap)
        ELSE LET w == Wrapped(ln, 11, textW)
             IN  out([i \in 1..Len(w.lines) |->
                        Item(w.lines[i], 11, 0, 0, 4, FALSE, s_textColor)],
                     "para", w)

-----------------------------------------------------------------------------
(* markdown(): pagination and drawing *)

\* the pagination loop's test with `y - item.size < M`
Place_IgnoresSpacing(st, item, H, M) ==
    LET s1 == IF st.y - item.size < M
              THEN [pages |-> IF st.pg # <<>>
                              THEN Append(st.pages, [items |-> st.pg, ys |-> st.ys])
                              ELSE st.pages,
                    pg |-> <<>>, ys |-> <<>>, y |-> H - M]
              ELSE st
        y1 == s1.y - item.spaceBefore
    IN  [s1 EXCEPT !.ys = Append(@, y1), !.pg = Append(@, item),
                   !.y = y1 - (item.size + item.spaceAfter)]

\* the body of the pagination loop for one item; st holds pages, pg, ys and y
Place(st, item, H, M) ==
    LET needed == item.spaceBefore + item.size + item.spaceAfter
        s1 == IF st.y - needed < M
              THEN [pages |-> IF st.pg # <<>>
                              THEN Append(st.pages, [items |-> st.pg, ys |-> st.ys])
                              ELSE st.pages,
                    pg |-> <<>>, ys |-> <<>>, y |-> H - M]
              ELSE st
        y1 == s1.y - item.spaceBefore
    IN  [s1 EXCEPT !.ys = Append(@, y1), !.pg = Append(@, item),
                   !.y = y1 - (item.size + item.spaceAfter)]

\* the end of pagination without `if (pg.length) pages.push({ items: pg, ys })`
Flush_DropsLast(st) ==
    IF st.pages = <<>> THEN <<[items |-> <<>>, ys |-> <<>>]>> ELSE st.pages

\* the two statements after the pagination loop: the pages
Flush(st) ==
    LET p1 == IF st.pg # <<>> THEN Append(st.pages, [items |-> st.pg, ys |-> st.ys])
              ELSE st.pages
    IN  IF p1 = <<>> THEN <<[items |-> <<>>, ys |-> <<>>]>> ELSE p1

\* the operators the drawing callback pushes for one item at height py
ItemOps(it, py, W, M) ==
    IF it.rule THEN line(M, py, W - M, py, s_ruleColor, 50)
    ELSE IF it.text # <<>>
         THEN text(it.text, M + it.indent, py, it.size, TextOpts("left", FALSE, 0, it.color))
         ELSE <<>>

\* the operators the drawing callback pushes for one page
PageOps(pg1, W, M) ==
    Concat([i \in 1..Len(pg1.items) |-> ItemOps(pg1.items[i], pg1.ys[i], W, M)])

-----------------------------------------------------------------------------
(* The arguments markdown() is called with *)

\* pieces of markdown text: '', ' \n\t' (two lines), 'a', 'aa a  ai', 'aaaaaa ié', '#
\*   a', '### a a\r', '- a i', '1. a', '12. ai a', '---',
\*   '####### a', 'a', six blank lines, 'b'
MdChunks ==
    { <<>>,
      <<32, 10, 9>>,
      <<97>>,
      <<97, 97, 32, 97, 32, 32, 97, 105>>,
      <<97, 97, 97, 97, 97, 97, 32, 105, 233>>,
      <<35, 32, 97>>,
      <<35, 35, 35, 32, 97, 32, 97, 13>>,
      <<45, 32, 97, 32, 105>>,
      <<49, 46, 32, 97>>,
      <<49, 50, 46, 32, 97, 105, 32, 97>>,
      <<45, 45, 45>>,
      <<35, 35, 35, 35, 35, 35, 35, 32, 97>>,
      <<97, 10, 10, 10, 10, 10, 10, 10, 98>> }

\* md: up to MaxMdChunks pieces joined by line feeds
MdInputs ==
    { Join(cs, <<10>>) : cs \in UNION {[1..m -> MdChunks] : m \in 1..MaxMdChunks} }

\* opts: width, height and margin; the defaults, a text column of 30, and one of 10
MdOpts ==
    { [W |-> 612, H |-> 792, M |-> 72],
      [W |-> 110, H |-> 120, M |-> 40],
      [W |-> 90, H |-> 120, M |-> 40] }

-----------------------------------------------------------------------------
(* The arguments the calls are made with *)

\* fill, stroke and underline colours: '#fff', 'f00', '#FF8000', '0a0B0c' parse;
\* undefined, '', 'none', '#', '#ggg', '#12345', '##fff', '1234567', 'ff00zz' do not
Colors ==
    { <<35, 102, 102, 102>>, <<102, 48, 48>>, <<35, 70, 70, 56, 48, 48, 48>>,
      <<48, 97, 48, 66, 48, 99>>,
      Absent, <<>>, s_none, <<35>>, <<35, 103, 103, 103>>, <<35, 49, 50, 51, 52, 53>>,
      <<35, 35, 102, 102, 102>>, <<49, 50, 51, 52, 53, 54, 55>>,
      <<102, 102, 48, 48, 122, 122>> }

\* stroke colours of line(): '#fff', '0a0B0c', undefined, 'none', '#12345'
LineColors ==
    { <<35, 102, 102, 102>>, <<48, 97, 48, 66, 48, 99>>, Absent, s_none,
      <<35, 49, 50, 51, 52, 53>> }

\* lineWidth of line(), in hundredths: undefined (the default 1 applies) or 0.5
LineWidths ==
    { <<>>, <<50>> }

\* underline colours of link(): '#fff', '0a0B0c', undefined, '', 'none', 'ff00zz'
Underlines ==
    { <<35, 102, 102, 102>>, <<48, 97, 48, 66, 48, 99>>, Absent, <<>>, s_none,
      <<102, 102, 48, 48, 122, 122>> }

\* x, y, w, h of rect(), image() and link(); x1, y1, x2, y2 of line()
Geoms ==
    { <<10, 20, 30, 40>>, <<0, 1, 5, 7>> }

\* url of link(): 'a', '(b'
Urls ==
    { <<97>>, <<40, 98>> }

\* str of text(): 'A', '(é', '\\\r\n)'
Texts ==
    { <<65>>, <<40, 233>>, <<92, 13, 10, 41>> }

\* opts of text(): {}, {align: 'center', width: 1000}, {align: 'right', width: 1000,
\* color: '#f00'}, {align: 'center', color: 'zzz'}
TextOptions ==
    { TextOpts("left", FALSE, 0, Absent),
      TextOpts("center", TRUE, 1000, Absent),
      TextOpts("right", TRUE, 1000, <<35, 102, 48, 48>>),
      TextOpts("center", FALSE, 0, <<122, 122, 122>>) }

\* size of text(): a multiple of 20, so that the aligned origin is a whole number of
\* hundredths
TextSizes ==
    { 1000 }

\* a JPEG the parser accepts: SOI APP0 SOF0 (height 1, width 2, 3 components)
GoodJpeg ==
    <<255, 216, 255, 224, 0, 2, 255, 192, 0, 11, 8, 0, 1, 0, 2, 3>>

\* a JPEG the parser rejects: SOI SOS SOF0
BadJpeg ==
    <<255, 216, 255, 218, 255, 192, 0, 11, 8, 0, 1, 0, 2, 3>>

\* jpegBytes of image(): also SOI SOF2 (1 x 1, 1 component) and one without SOI
JpegSamples ==
    { GoodJpeg, BadJpeg,
      <<255, 216, 255, 194, 0, 11, 8, 0, 1, 0, 1, 1, 0>>,
      <<216, 255, 255, 192, 0, 11, 8, 0, 1, 0, 2, 3>> }

\* width and height of page(): the default 612 x 792, or given
PageSizes ==
    { <<612, 792>>, <<400, 600>> }

\* the first two bytes of a parsed image: SOI, FF 00, D8 FF, or nothing
JpegPrefixes ==
    { <<255, 216>>, <<255, 0>>, <<216, 255>>, <<>> }

\* marker segments: APP0 of length 2; APP0 of length 4 whose payload is FF C0; APP0
\* of length 0; SOS; SOF0 2 x 1 RGB; SOF2 1 x 2 gray; SOF0 3 x 3 CMYK; SOF0 of width
\* 0 and length 8; a byte that is no marker; a lone FF
JpegSegments ==
    { <<255, 224, 0, 2>>,
      <<255, 224, 0, 4, 255, 192>>,
      <<255, 224, 0, 0>>,
      <<255, 218>>,
      <<255, 192, 0, 11, 8, 0, 1, 0, 2, 3>>,
      <<255, 194, 0, 11, 8, 0, 2, 0, 1, 1>>,
      <<255, 192, 0, 11, 8, 0, 3, 0, 3, 4>>,
      <<255, 192, 0, 8, 8, 0, 1, 0, 0, 3>>,
      <<0>>,
      <<255>> }

\* the byte sequences the parser is run on: a prefix, up to MaxSegs segments, cut
\* at any length
JpegInputs ==
    { SubSeq(p \o Concat(segs), 1, n) :
        <<p, segs, n>> \in
          { <<p, segs, n>> \in JpegPrefixes
                               \X (UNION {[1..m -> JpegSegments] : m \in 0..MaxSegs})
                               \X (0..(2 + 10 * MaxSegs)) :
              n <= Len(p \o Concat(segs)) } }

-----------------------------------------------------------------------------
(* The state machine of one document *)

\* a call and how it ended: err is "none" or the error it threw
Call(op, err, color, geom, str) ==
    [op |-> op, err |-> err, color |-> color, geom |-> geom, str |-> str]

\* pdf()
InitDoc ==
    /\ objects = <<>>
    /\ pages = <<>>
    /\ nextId = 1
    /\ built = FALSE
    /\ stack = <<>>
    /\ last = Call("pdf", "none", Absent, <<>>, <<>>)
    /\ result = <<>>
    /\ noPagesSeen = FALSE
    /\ draws = 0
    /\ pageCalls = 0

\* parseJpeg is not running
ScanIdle ==
    /\ scanBytes = <<>>
    /\ scanI = 0
    /\ scanState = "idle"
    /\ scanResult = JpegError

\* markdown() is not running
MdIdle ==
    /\ mdIn = [md |-> <<>>, W |-> 612, H |-> 792, M |-> 72]
    /\ mdPhase = "idle"
    /\ mdRest = <<>>
    /\ prevType = "start"
    /\ items = <<>>
    /\ wrapped = NoWrap
    /\ itemK = 1
    /\ mdY = 0
    /\ pg = <<>>
    /\ ys = <<>>
    /\ mdPages = <<>>
    /\ pageK = 1

Init ==
    InitDoc /\ ScanIdle /\ MdIdle

\* the innermost running page() call
Top ==
    stack[Len(stack)]

\* ops.push(...) in the innermost running page() call
PushOps(newOps) ==
    [stack EXCEPT ![Len(stack)].ops = @ \o newOps]

\* an error thrown in the innermost callback leaves k of the running page() calls
\* (k = 0: the callback catches it); a page() call that is left adds nothing more
Unwind(k) ==
    SubSeq(stack, 1, Len(stack) - k)

\* page(width, height, fn) up to the call fn(ctx)
Page(width, height) ==
    /\ stack' = Append(stack, NewFrame(width, height))
    /\ pageCalls' = pageCalls + 1
    /\ last' = Call("page", "none", Absent, <<width, height>>, <<>>)
    /\ UNCHANGED <<objects, pages, nextId, built, result, noPagesSeen, draws>>
    /\ UNCHANGED scanVars
    /\ UNCHANGED mdVars

\* page() from the return of fn(ctx) to its end
PageReturn ==
    /\ stack # <<>>
    /\ LET r == FinishPage([objects |-> objects, nextId |-> nextId], Top)
       IN  /\ objects' = r.objects
           /\ nextId' = r.nextId
           /\ pages' = Append(pages, r.ref)
    /\ stack' = Unwind(1)
    /\ last' = Call("pageReturn", "none", Absent, <<Top.width, Top.height>>, <<>>)
    /\ UNCHANGED <<built, result, noPagesSeen, draws, pageCalls>>
    /\ UNCHANGED scanVars
    /\ UNCHANGED mdVars

Text(str, x, y, size, opts) ==
    /\ stack # <<>>
    /\ stack' = PushOps(text(str, x, y, size, opts))
    /\ last' = Call("text", "none", opts.color, <<x, y, size>>, str)
    /\ draws' = draws + 1
    /\ UNCHANGED <<objects, pages, nextId, built, result, noPagesSeen, pageCalls>>
    /\ UNCHANGED scanVars
    /\ UNCHANGED mdVars

Rect(x, y, w, h, fill) ==
    /\ stack # <<>>
    /\ stack' = PushOps(rect(x, y, w, h, fill))
    /\ last' = Call("rect", "none", fill, <<x, y, w, h>>, <<>>)
    /\ draws' = draws + 1
    /\ UNCHANGED <<objects, pages, nextId, built, result, noPagesSeen, pageCalls>>
    /\ UNCHANGED scanVars
    /\ UNCHANGED mdVars

\* lineWidth is <<>> when the argument is left out: lineWidth = 1
Line(x1, y1, x2, y2, stroke, lineWidth) ==
    /\ stack # <<>>
    /\ stack' = PushOps(line(x1, y1, x2, y2, stroke,
                             IF lineWidth = <<>> THEN 100 ELSE lineWidth[1]))
    /\ last' = Call("line", "none", stroke, <<x1, y1, x2, y2>>, <<>>)
    /\ draws' = draws + 1
    /\ UNCHANGED <<objects, pages, nextId, built, result, noPagesSeen, pageCalls>>
    /\ UNCHANGED scanVars
    /\ UNCHANGED mdVars

Image(jpegBytes, x, y, w, h) ==
    /\ stack # <<>>
    /\ draws' = draws + 1
    /\ LET hdr == parseJpeg(jpegBytes)
       IN  IF hdr.ok
           THEN LET imgName == ImageName(Top.imageCount)
                    r == addObject([objects |-> objects, nextId |-> nextId],
                                   ImageDict(hdr, Len(jpegBytes)), Stream(jpegBytes))
                IN  /\ objects' = r.objects
                    /\ nextId' = r.nextId
                    /\ stack' = [stack EXCEPT ![Len(stack)] =
                                    [@ EXCEPT !.imageCount = @ + 1,
                                              !.images = Append(@, [name |-> imgName, ref |-> r.ref]),
                                              !.ops = @ \o image(imgName, x, y, w, h)]]
                    /\ last' = Call("image", "none", Absent, <<x, y, w, h>>, jpegBytes)
           ELSE /\ \E k \in 0..Len(stack) : stack' = Unwind(k)
                /\ last' = Call("image", "MalformedImage", Absent, <<x, y, w, h>>, jpegBytes)
                /\ UNCHANGED <<objects, nextId>>
    /\ UNCHANGED <<pages, built, result, noPagesSeen, pageCalls>>
    /\ UNCHANGED scanVars
    /\ UNCHANGED mdVars

Link(url, x, y, w, h, underline) ==
    /\ stack # <<>>
    /\ stack' = [stack EXCEPT ![Len(stack)] =
                    [@ EXCEPT !.links = Append(@, LinkEntry(url, x, y, w, h)),
                              !.ops = @ \o link(x, y, w, h, underline)]]
    /\ last' = Call("link", "none", underline, <<x, y, w, h>>, url)
    /\ draws' = draws + 1
    /\ UNCHANGED <<objects, pages, nextId, built, result, noPagesSeen, pageCalls>>
    /\ UNCHANGED scanVars
    /\ UNCHANGED mdVars

\* build() without `if (built) throw ...`
BuildGuard_NoBuiltCheck ==
    IF pages = <<>> THEN "NoPages" ELSE "none"

\* build() without `if (!pages.length) throw ...`
BuildGuard_NoPagesCheck ==
    IF built THEN "AlreadyBuilt" ELSE "none"

\* the two guards of build(): the error it throws, or "none"
BuildGuard ==
    IF pages = <<>> THEN "NoPages"
    ELSE IF built THEN "AlreadyBuilt"
    ELSE "none"

\* build(): called by the client or from inside a running callback
BuildDoc ==
    /\ IF BuildGuard = "NoPages"
       THEN /\ last' = Call("build", "NoPages", Absent, <<>>, <<>>)
            /\ noPagesSeen' = TRUE
            /\ result' = <<>>
            /\ \E k \in 0..Len(stack) : stack' = Unwind(k)
            /\ UNCHANGED <<objects, pages, nextId, built, draws, pageCalls>>
       ELSE IF BuildGuard = "AlreadyBuilt"
       THEN /\ last' = Call("build", "AlreadyBuilt", Absent, <<>>, <<>>)
            /\ result' = <<>>
            /\ \E k \in 0..Len(stack) : stack' = Unwind(k)
            /\ UNCHANGED <<objects, pages, nextId, built, noPagesSeen, draws, pageCalls>>
       ELSE LET r == FinishObjects([objects |-> objects, nextId |-> nextId])
            IN  /\ built' = TRUE
                /\ objects' = r.objects
                /\ nextId' = r.nextId
                /\ result' = WriteFile(r.objects, r.ref)
                /\ last' = Call("build", "none", Absent, <<>>, <<>>)
                /\ UNCHANGED <<pages, stack, noPagesSeen, draws, pageCalls>>
    /\ UNCHANGED scanVars

\* build() called on a document
Build ==
    BuildDoc /\ UNCHANGED mdVars

\* the life cycle of a document: pages, a few drawing calls of each kind, build
Next ==
    \/ /\ pageCalls < MaxPageCalls
       /\ Len(stack) < MaxDepth
       /\ \E s \in PageSizes : Page(s[1], s[2])
    \/ PageReturn
    \/ /\ draws < MaxDraws
       /\ Text(<<40, 233>>, 10, 20, 1000, TextOpts("left", FALSE, 0, Absent))
    \/ /\ draws < MaxDraws
       /\ Rect(10, 20, 30, 40, <<35, 102, 102, 102>>)
    \/ /\ draws < MaxDraws
       /\ Line(10, 20, 30, 40, <<35, 102, 102, 102>>, <<>>)
    \/ /\ draws < MaxDraws
       /\ \E b \in {GoodJpeg, BadJpeg} : Image(b, 10, 20, 30, 40)
    \/ /\ draws < MaxDraws
       /\ \E url \in Urls : Link(url, 10, 20, 30, 40, <<35, 102, 102, 102>>)
    \/ Build

Spec ==
    Init /\ [][Next]_vars

\* the drawing calls with the full range of their arguments
NextDraw ==
    \/ /\ pageCalls < MaxDrawPages
       /\ Len(stack) < MaxDepth
       /\ Page(612, 792)
    \/ PageReturn
    \/ /\ draws < MaxDrawCalls
       /\ \E str \in Texts, size \in TextSizes, opts \in TextOptions :
             Text(str, 10, 20, size, opts)
    \/ /\ draws < MaxDrawCalls
       /\ \E fill \in Colors : Rect(10, 20, 30, 40, fill)
    \/ /\ draws < MaxDrawCalls
       /\ \E stroke \in LineColors, lw \in LineWidths : Line(10, 20, 30, 40, stroke, lw)
    \/ /\ draws < MaxDrawCalls
       /\ \E b \in JpegSamples : Image(b, 10, 20, 30, 40)
    \/ /\ draws < MaxDrawCalls
       /\ \E g \in Geoms, u \in Underlines : Link(<<97>>, g[1], g[2], g[3], g[4], u)

SpecDraw ==
    Init /\ [][NextDraw]_vars

-----------------------------------------------------------------------------
(* parseJpeg, statement by statement *)

InitScan ==
    /\ InitDoc
    /\ MdIdle
    /\ scanBytes \in JpegInputs
    /\ scanI = 0
    /\ scanState = "start"
    /\ scanResult = JpegError

\* if (bytes.length < 2 || ...) throw ...; let i = 2
ScanStart ==
    /\ scanState = "start"
    /\ IF MissingSOI(scanBytes)
       THEN scanState' = "thrown" /\ scanI' = scanI
       ELSE scanState' = "scan" /\ scanI' = 2
    /\ UNCHANGED <<scanBytes, scanResult>>
    /\ UNCHANGED docVars
    /\ UNCHANGED mdVars

\* one test of the loop's condition and, if it holds, one run of its body; the
\* throw after the loop when it does not, or when the body breaks
ScanStep ==
    /\ scanState = "scan"
    /\ IF ~(scanI < Len(scanBytes) - 1)
       THEN scanState' = "thrown" /\ UNCHANGED <<scanI, scanResult>>
       ELSE LET b == ScanBody(scanBytes, scanI)
            IN  IF b.k = "return"
                THEN /\ scanState' = "returned"
                     /\ scanResult' = [ok |-> TRUE, width |-> b.width, height |-> b.height,
                                       colorSpace |-> b.colorSpace]
                     /\ scanI' = scanI
                ELSE IF b.k = "break"
                THEN scanState' = "thrown" /\ UNCHANGED <<scanI, scanResult>>
                ELSE scanState' = "scan" /\ scanI' = b.i /\ scanResult' = scanResult
    /\ UNCHANGED scanBytes
    /\ UNCHANGED docVars
    /\ UNCHANGED mdVars

NextScan ==
    ScanStart \/ ScanStep

SpecScan ==
    InitScan /\ [][NextScan]_vars

\* parseJpeg runs to its end once called: a synchronous loop
SpecScanFair ==
    InitScan /\ [][NextScan]_vars /\ WF_vars(NextScan)

-----------------------------------------------------------------------------
(* markdown(), loop turn by loop turn *)

\* markdown(md, opts) up to the classification loop
InitMd ==
    /\ InitDoc
    /\ ScanIdle
    /\ \E md \in MdInputs, o \in MdOpts : mdIn = [md |-> md, W |-> o.W, H |-> o.H, M |-> o.M]
    /\ mdPhase = "classify"
    /\ mdRest = Split(mdIn.md, 10)
    /\ prevType = "start"
    /\ items = <<>>
    /\ wrapped = NoWrap
    /\ itemK = 1
    /\ mdY = mdIn.H - mdIn.M
    /\ pg = <<>>
    /\ ys = <<>>
    /\ mdPages = <<>>
    /\ pageK = 1

\* one turn of `for (const raw of md.split('\n'))`
MdClassify ==
    /\ mdPhase = "classify"
    /\ LET c == Classify(Head(mdRest), prevType, mdIn.W - mdIn.M * 2)
       IN  /\ items' = items \o c.items
           /\ prevType' = c.prevType
           /\ wrapped' = c.wrapped
    /\ mdRest' = Tail(mdRest)
    /\ mdPhase' = IF Tail(mdRest) = <<>> THEN "paginate" ELSE "classify"
    /\ UNCHANGED <<mdIn, itemK, mdY, pg, ys, mdPages, pageK>>
    /\ UNCHANGED docVars
    /\ UNCHANGED scanVars

\* one turn of `for (const item of items)`
MdPlace ==
    /\ mdPhase = "paginate"
    /\ itemK <= Len(items)
    /\ LET st == Place([pages |-> mdPages, pg |-> pg, ys |-> ys, y |-> mdY], items[itemK],
                       mdIn.H, mdIn.M)
       IN  /\ mdPages' = st.pages
           /\ pg' = st.pg
           /\ ys' = st.ys
           /\ mdY' = st.y
    /\ itemK' = itemK + 1
    /\ UNCHANGED <<mdIn, mdPhase, mdRest, prevType, items, wrapped, pageK>>
    /\ UNCHANGED docVars
    /\ UNCHANGED scanVars

\* the end of the pagination loop and the two statements after it
MdFlush ==
    /\ mdPhase = "paginate"
    /\ itemK > Len(items)
    /\ mdPages' = Flush([pages |-> mdPages, pg |-> pg, ys |-> ys, y |-> mdY])
    /\ mdPhase' = "draw"
    /\ UNCHANGED <<mdIn, mdRest, prevType, items, wrapped, itemK, mdY, pg, ys, pageK>>
    /\ UNCHANGED docVars
    /\ UNCHANGED scanVars

\* one turn of `for (const { items: pi, ys: py } of pages)`: doc.page(W, H, ctx => ...)
\* with its callback
MdDrawPage ==
    /\ mdPhase = "draw"
    /\ pageK <= Len(mdPages)
    /\ LET frame == [NewFrame(mdIn.W, mdIn.H) EXCEPT
                        !.ops = PageOps(mdPages[pageK], mdIn.W, mdIn.M)]
           r == FinishPage([objects |-> objects, nextId |-> nextId], frame)
           drawn == Cardinality({i \in 1..Len(mdPages[pageK].items) :
                                    \/ mdPages[pageK].items[i].rule
                                    \/ mdPages[pageK].items[i].text # <<>>})
       IN  /\ objects' = r.objects
           /\ nextId' = r.nextId
           /\ pages' = Append(pages, r.ref)
           /\ draws' = draws + drawn
    /\ pageCalls' = pageCalls + 1
    /\ last' = Call("pageReturn", "none", Absent, <<mdIn.W, mdIn.H>>, <<>>)
    /\ pageK' = pageK + 1
    /\ mdPhase' = IF pageK = Len(mdPages) THEN "build" ELSE "draw"
    /\ UNCHANGED <<built, stack, result, noPagesSeen>>
    /\ UNCHANGED <<mdIn, mdRest, prevType, items, wrapped, itemK, mdY, pg, ys, mdPages>>
    /\ UNCHANGED scanVars

\* return doc.build()
MdBuild ==
    /\ mdPhase = "build"
    /\ BuildDoc
    /\ mdPhase' = "done"
    /\ UNCHANGED <<mdIn, mdRest, prevType, items, wrapped, itemK, mdY, pg, ys, mdPages, pageK>>

NextMd ==
    MdClassify \/ MdPlace \/ MdFlush \/ MdDrawPage \/ MdBuild

SpecMd ==
    InitMd /\ [][NextMd]_vars

-----------------------------------------------------------------------------
(* Claims C1 - C4: the life cycle of a document *)

\* a step in which page() is called
PageCalled ==
    pageCalls' = pageCalls + 1

\* a step in which build() is called
BuildCalled ==
    last'.op = "build"

\* C1 (as claimed): once build() has succeeded, every page() call fails with
\* AlreadyBuilt, and no step appends to the object list or to the page list.
C1_NoPageAfterBuild ==
    [][built => /\ (PageCalled => last'.err = "AlreadyBuilt")
                /\ objects' = objects
                /\ pages' = pages]_vars

\* C2: build() succeeds at most once: a successful build() sets the built flag, the
\* flag is never cleared, and every build() call made while it is set fails with
\* AlreadyBuilt, returns no bytes and appends no object.
C2_BuildSucceedsOnce ==
    [][/\ (BuildCalled /\ last'.err = "none") => (~built /\ built')
       /\ built => built'
       /\ (built /\ BuildCalled) => /\ last'.err = "AlreadyBuilt"
                                    /\ result' = <<>>
                                    /\ objects' = objects
                                    /\ nextId' = nextId]_vars

\* C2 witness: a second build() has failed on a built document
C2_Witness ==
    built /\ last.op = "build" /\ last.err = "AlreadyBuilt" /\ Len(objects) >= 5

\* C3: build() on an empty page list fails with NoPages, returns no bytes and leaves
\* the objects, the id counter, the page list and the built flag (false) as they
\* were; and build() on an unbuilt document with a page succeeds, also after such a
\* failure.
C3_NoPagesLeavesDocument ==
    [][/\ (pages = <<>> /\ BuildCalled) => /\ last'.err = "NoPages"
                                           /\ result' = <<>>
                                           /\ objects' = objects
                                           /\ nextId' = nextId
                                           /\ pages' = pages
                                           /\ ~built /\ ~built'
       /\ (pages # <<>> /\ ~built /\ BuildCalled) => /\ last'.err = "none"
                                                     /\ result' # <<>>
                                                     /\ built']_vars

\* C3 witness: a build() has succeeded after an earlier one failed with NoPages
C3_Witness ==
    noPagesSeen /\ last.op = "build" /\ last.err = "none" /\ result # <<>>

\* C4: the k-th object of the list has id k and the counter is one past the last
\* id; every step keeps the objects already in the list, in place and with their
\* ids and streams (build() only fills in slots of page dictionaries).
C4_IdsAreIndices ==
    /\ [](/\ nextId = Len(objects) + 1
          /\ \A k \in 1..Len(objects) : objects[k].id = k)
    /\ [][/\ Len(objects') >= Len(objects)
          /\ \A k \in 1..Len(objects) : /\ objects'[k].id = objects[k].id
                                        /\ objects'[k].stream = objects[k].stream]_vars

\* C4 witness: a built document with an image, an annotation and two pages, after a
\* call that failed
C4_Witness ==
    /\ built
    /\ Len(pages) = 2
    /\ Len(objects) >= 9
    /\ last.err # "none"

-----------------------------------------------------------------------------
(* Claims C5 - C7: the bytes build() returns and the objects' streams *)

IsDigit(c) ==
    c >= 48 /\ c <= 57

\* the number a run of decimal digits denotes
RECURSIVE DigitsValue(_)
DigitsValue(ds) ==
    IF ds = <<>> THEN 0
    ELSE 10 * DigitsValue(SubSeq(ds, 1, Len(ds) - 1)) + (ds[Len(ds)] - 48)

\* does the byte sequence s stand in res at (0-based) position p
StandsAt(res, p, s) ==
    p >= 0 /\ p + Len(s) <= Len(res) /\ SubSeq(res, p + 1, p + Len(s)) = s

\* the positions of res where a line starts that begins with s
LineStarts(res, s) ==
    { p \in 0..(Len(res) - 1) : (p = 0 \/ res[p] = 10) /\ StandsAt(res, p, s) }

\* the position where the run of digits that ends just before position e starts
DigitsStart(res, e) ==
    CHOOSE p \in 0..e : /\ \A q \in (p + 1)..e : IsDigit(res[q])
                        /\ (p = 0 \/ ~IsDigit(res[p]))

\* read from the file's last lines: the number written after 'startxref'
StartXrefValue(res) ==
    LET e == Len(res) - Len(Tok.eof)
    IN  DigitsValue(SubSeq(res, DigitsStart(res, e) + 1, e))

\* read from the file: the offset written in cross-reference entry i of a table of
\* n entries that starts at position x ('xref', '0 <n + 1>', then 20 bytes an entry)
XrefEntryValue(res, x, n, i) ==
    LET first == x + Len(Tok.xref) + Len(IntStr(n + 1)) + 1
    IN  DigitsValue(SubSeq(res, first + 20 * i + 1, first + 20 * i + 10))

\* the last call was a build() that returned
BuildReturned ==
    last.op = "build" /\ last.err = "none"

\* C5: in the bytes a successful build() over N objects returns, the file ends with
\* 'startxref', a number and '%%EOF'; that number is the one position where a line
\* 'xref' starts; and for every id i in 1..N the offset in cross-reference entry i is
\* the one position where the line '<i> 0 obj' starts.
C5_OffsetsAreExact ==
    BuildReturned =>
        LET n == Len(objects)
            e == Len(result) - Len(Tok.eof)
            x == StartXrefValue(result)
        IN  /\ StandsAt(result, e, Tok.eof)
            /\ StandsAt(result, DigitsStart(result, e) - Len(Tok.startxref), Tok.startxref)
            /\ LineStarts(result, Tok.xref \o IntStr(n + 1) \o <<10>>) = {x}
            /\ \A i \in 1..n :
                  LineStarts(result, IntStr(i) \o Tok.obj) = {XrefEntryValue(result, x, n, i)}

\* C5 witness: a file of at least 8 objects, one of them a stream with a byte
\* above 127 in it
C5_Witness ==
    /\ BuildReturned
    /\ Len(objects) >= 8
    /\ \E k \in 1..Len(objects) :
          /\ objects[k].stream.present
          /\ \E j \in 1..Len(objects[k].stream.bytes) : objects[k].stream.bytes[j] > 127

\* is the dictionary's Type the name `name`
HasType(obj, name) ==
    Get(obj.dict, Key.Type).t = "string" /\ Get(obj.dict, Key.Type).s = name

\* the conclusions of C6 about the object list
C6_Structure ==
    LET n == Len(objects)
        ofType(name) == { k \in 1..n : HasType(objects[k], name) }
    IN  /\ n >= 3
        /\ ofType(Tok.Font) = {n - 2}
        /\ ofType(Tok.Pages) = {n - 1}
        /\ ofType(Tok.Catalog) = {n}
        /\ serialize(Get(objects[n - 1].dict, Key.Kids))
             = serialize(Arr([i \in 1..Len(pages) |-> Ref(pages[i])]))
        /\ \A i \in 1..Len(pages) : pages[i] \in ofType(Tok.Page)
        /\ Get(objects[n - 1].dict, Key.Count) = Num(Len(pages))
        /\ \A k \in ofType(Tok.Page) :
              /\ Get(objects[k].dict, Key.Parent) = Ref(n - 1)
              /\ Get(Get(Get(objects[k].dict, Key.Resources), Key.Font), Key.F1) = Ref(n - 2)
        /\ Get(objects[n].dict, Key.Pages) = Ref(n - 1)

\* C6: in the state a successful build() returns in, the object list ends with the
\* one font, the one pages tree and the one catalog; Kids is the page list, Count
\* its length; every page object has its Parent and its font slot filled in; the
\* catalog refers to the pages tree.
C6_WhenBuildReturns ==
    BuildReturned => C6_Structure

\* C6 witness: build() has returned on a document of two pages and an image
C6_Witness ==
    /\ BuildReturned
    /\ Len(pages) = 2
    /\ \E k \in 1..Len(objects) : HasType(objects[k], Tok.XObject)

\* the bytes written for an object, from its dictionary's end on
AfterDict(obj) ==
    LET bytes == Concat(WriteObject(EmptyOutput, obj).chunks)
        head == Encode(IntStr(obj.id) \o Tok.obj \o serialize(obj.dict))
    IN  SubSeq(bytes, Len(head) + 1, Len(bytes))

\* C7: an object with a stream has a Length equal to the stream's byte count, and is
\* written with exactly that many bytes between 'stream' and 'endstream'; images and
\* content streams (the objects without a Type) carry a stream; an object without
\* one (annotations, pages, font, pages tree, catalog) is written with 'endobj'
\* right after its dictionary.
C7_StreamLengths ==
    \A k \in 1..Len(objects) :
       LET obj == objects[k]
       IN  /\ obj.stream.present
                <=> (HasType(obj, Tok.XObject) \/ Get(obj.dict, Key.Type) = Undefined)
           /\ obj.stream.present =>
                /\ Get(obj.dict, Key.Length) = Num(Len(obj.stream.bytes))
                /\ AfterDict(obj) = <<10>> \o Encode(Tok.stream) \o obj.stream.bytes
                                    \o Encode(Tok.endstream)
           /\ ~obj.stream.present => AfterDict(obj) = <<10>> \o Encode(Tok.endobj)

\* C7 witness: a built document with an image and a content stream that holds a
\* character of two bytes
C7_Witness ==
    /\ BuildReturned
    /\ \E k \in 1..Len(objects) : HasType(objects[k], Tok.XObject)
    /\ \E k \in 1..Len(objects) :
          /\ Get(objects[k].dict, Key.Type) = Undefined
          /\ \E j \in 1..Len(objects[k].stream.bytes) : objects[k].stream.bytes[j] > 127

-----------------------------------------------------------------------------
(* Claim C8: the image header parser *)

\* a frame header (FF C0 or FF C2) with its 9 bytes stands at index i
FrameHeaderAt(bytes, i) ==
    /\ i >= 2
    /\ i + 9 < Len(bytes)
    /\ At(bytes, i) = 255
    /\ At(bytes, i + 1) \in {192, 194}

\* the scan is at a marker whose code is `code`
MarkerAt(bytes, i, code) ==
    /\ i + 1 < Len(bytes)
    /\ At(bytes, i) = 255
    /\ At(bytes, i + 1) = code

\* C8: the parser throws when the first two bytes are not FF D8, when the scan
\* reaches FF DA, when it reaches a frame header cut short of its 9 bytes, and when
\* the bytes end; while it goes on it passes a marker by 2 + its 16-bit length and
\* any other byte by 1; it returns only at a frame header, with the non-zero
\* dimensions read there; and parseJpeg as a whole ends as that scan does.
C8_ParserThrowsOrFindsHeader ==
    /\ [](scanState = "returned" =>
             /\ ~MissingSOI(scanBytes)
             /\ FrameHeaderAt(scanBytes, scanI)
             /\ scanResult.ok
             /\ scanResult.height = Word16(scanBytes, scanI + 5)
             /\ scanResult.width = Word16(scanBytes, scanI + 7)
             /\ scanResult.height > 0
             /\ scanResult.width > 0
             /\ parseJpeg(scanBytes) = scanResult)
    /\ [](scanState = "thrown" => ~parseJpeg(scanBytes).ok)
    /\ [][/\ (scanState = "start" /\ MissingSOI(scanBytes)) => scanState' = "thrown"
          /\ (scanState = "scan" /\ MarkerAt(scanBytes, scanI, 218)) => scanState' = "thrown"
          /\ (scanState = "scan" /\ scanI + 9 >= Len(scanBytes)
                /\ (MarkerAt(scanBytes, scanI, 192) \/ MarkerAt(scanBytes, scanI, 194)))
               => scanState' = "thrown"
          /\ (scanState = "scan" /\ scanI + 1 >= Len(scanBytes)) => scanState' = "thrown"
          /\ (scanState = "scan" /\ scanState' = "scan") =>
                scanI' = IF At(scanBytes, scanI) = 255
                         THEN scanI + 2 + Word16(scanBytes, scanI + 2)
                         ELSE scanI + 1
          /\ scanState \in {"returned", "thrown"} => scanState' = scanState]_vars

\* C8 witness: the parser has returned the header at index 8, having passed a
\* segment whose payload holds the bytes FF C0 at index 6
C8_Witness ==
    /\ scanState = "returned"
    /\ scanI = 8
    /\ FrameHeaderAt(scanBytes, 6)

-----------------------------------------------------------------------------
(* Claims C9, C10: colours that do not parse, and the underline of a link *)

\* a colour argument that is present, is not 'none', and is exactly 3 or 6
\* hexadecimal digits after an optional leading '#'
ColorIsHex(c) ==
    /\ c # Absent
    /\ c # s_none
    /\ LET d == IF Len(c) >= 1 /\ c[1] = 35 THEN Tail(c) ELSE c
       IN  /\ Len(d) \in {3, 6}
           /\ \A i \in 1..Len(d) : d[i] \in (48..57) \cup (65..70) \cup (97..102)

\* a step in which the drawing call `op` is made
DrawCalled(op) ==
    draws' = draws + 1 /\ last'.op = op

\* the operators a step appends to the innermost page's list
AddedOps ==
    SubSeq(stack'[Len(stack)].ops, Len(Top.ops) + 1, Len(stack'[Len(stack)].ops))

\* C9: a rect, line or link call returns without an error and keeps the operators
\* already in the list; with a colour that does not parse it appends none (link
\* still records its annotation); with one that parses, rect appends 3 operators
\* and line 5.
C9_NoColorNoOperator ==
    [][(DrawCalled("rect") \/ DrawCalled("line") \/ DrawCalled("link")) =>
          /\ last'.err = "none"
          /\ Len(stack') = Len(stack)
          /\ SubSeq(stack'[Len(stack)].ops, 1, Len(Top.ops)) = Top.ops
          /\ ~ColorIsHex(last'.color) => AddedOps = <<>>
          /\ (ColorIsHex(last'.color) /\ last'.op = "rect") => Len(AddedOps) = 3
          /\ (ColorIsHex(last'.color) /\ last'.op = "line") => Len(AddedOps) = 5
          /\ last'.op = "link" => Len(stack'[Len(stack)].links) = Len(Top.links) + 1]_vars

\* C9 witness: link() with the underline 'ff00zz' has recorded its annotation and
\* pushed no operator, as the call before it on the page pushed none
C9_Witness ==
    /\ stack # <<>>
    /\ last.op = "link"
    /\ last.color = <<102, 102, 48, 48, 122, 122>>
    /\ draws = 2
    /\ Len(Top.links) = 1
    /\ Top.ops = <<>>

\* C10 (as claimed): link() with an underline that parses appends a stroked line
\* from (x, y - 2) to (x + w, y - 2) and records the rectangle [x, y, x + w, y + h].
C10_UnderlineBelowBottom ==
    [][(DrawCalled("link") /\ ColorIsHex(last'.color)) =>
          LET x == last'.geom[1]
              y == last'.geom[2]
              w == last'.geom[3]
              h == last'.geom[4]
              links == stack'[Len(stack)].links
          IN  /\ Len(AddedOps) = 5
              /\ AddedOps[3] = ToFixed2(100 * x) \o <<32>> \o ToFixed2(100 * (y - 2)) \o Tok.m
              /\ AddedOps[4] = ToFixed2(100 * (x + w)) \o <<32>> \o ToFixed2(100 * (y - 2)) \o Tok.l
              /\ AddedOps[5] = Tok.S
              /\ links[Len(links)].rect = <<x, y, x + w, y + h>>]_vars

-----------------------------------------------------------------------------
(* Claim C11: text strings in serialized values *)

\* the string that the escape sequences of `body` stand for, from index i on; ok is
\* FALSE when a parenthesis, carriage return or line feed stands unescaped in it or
\* a backslash ends it
RECURSIVE Unescape(_, _)
Unescape(body, i) ==
    IF i > Len(body) THEN [ok |-> TRUE, s |-> <<>>]
    ELSE IF body[i] = 92
         THEN IF i = Len(body) THEN [ok |-> FALSE, s |-> <<>>]
              ELSE LET rest == Unescape(body, i + 2)
                       c == IF body[i + 1] = 110 THEN 10
                            ELSE IF body[i + 1] = 114 THEN 13 ELSE body[i + 1]
                   IN  [ok |-> rest.ok, s |-> <<c>> \o rest.s]
    ELSE IF body[i] \in {40, 41, 13, 10} THEN [ok |-> FALSE, s |-> <<>>]
    ELSE LET rest == Unescape(body, i + 1)
         IN  [ok |-> rest.ok, s |-> <<body[i]>> \o rest.s]

\* `out` is the string `str` written between '(' and ')' with its escapes
IsLiteralOf(out, str) ==
    /\ Len(out) >= 2
    /\ out[1] = 40
    /\ out[Len(out)] = 41
    /\ LET d == Unescape(SubSeq(out, 2, Len(out) - 1), 1)
       IN  d.ok /\ d.s = str

\* the url held by a link annotation object
UriOf(obj) ==
    Get(Get(obj.dict, Key.A), Key.URI)

\* C11 (as claimed): the URI of every link annotation that does not start with '/'
\* is serialized between '(' and ')' with its escapes, and decodes to the url that
\* was passed to link().
C11_UriIsEscapedLiteral ==
    \A k \in 1..Len(objects) :
        (HasType(objects[k], Tok.Annot) /\ ~StartsWith(UriOf(objects[k]).s, 47)) =>
            IsLiteralOf(serialize(UriOf(objects[k])), UriOf(objects[k]).s)

-----------------------------------------------------------------------------
(* Claim C16: a page() call whose callback throws *)

\* C16 (as claimed): when image() throws and the error leaves a page() call, no
\* object of the document is an image that was added in that page() call.
C16_AbortedPageLeavesNothing ==
    [][(last'.op = "image" /\ last'.err = "MalformedImage" /\ draws' = draws + 1
          /\ Len(stack') < Len(stack)) =>
          /\ pages' = pages
          /\ \A f \in (Len(stack') + 1)..Len(stack) :
                \A j \in 1..Len(stack[f].images) :
                   \A k \in 1..Len(objects') : objects'[k].id # stack[f].images[j].ref]_vars

-----------------------------------------------------------------------------
(* Claim C18: the image header parser terminates *)

\* C18: every turn of the scan loop that goes on to another moves the index up, by
\* at least 1 on a byte that is not FF and by at least 2 on a marker; and the
\* parser ends, returning or throwing.
C18_ParserTerminates ==
    /\ [][(scanState = "scan" /\ scanState' = "scan") =>
             /\ scanI' > scanI
             /\ At(scanBytes, scanI) = 255 => scanI' >= scanI + 2]_vars
    /\ [](scanState = "scan" => scanI >= 2)
    /\ <>(scanState \in {"returned", "thrown"})

\* C18 witness: the parser has ended after passing a marker whose length field is 0
C18_Witness ==
    /\ scanState \in {"returned", "thrown"}
    /\ ~MissingSOI(scanBytes)
    /\ Len(scanBytes) >= 6
    /\ At(scanBytes, 2) = 255
    /\ At(scanBytes, 3) = 224
    /\ Word16(scanBytes, 4) = 0
    /\ scanI >= 4

-----------------------------------------------------------------------------
(* Claim C12: the lines wrap returns *)

\* a line of one character that alone is wider than maxW
IsWideChar(ln, size, maxW) ==
    Len(CodePoints(ln)) = 1 /\ measureText(ln, size) > 1000 * maxW

\* C12: every wrap call returns at least one line, and each line it returns
\* measures at most maxW unless it is a single character wider than maxW.
C12_WrappedLinesFit ==
    wrapped.called =>
        /\ Len(wrapped.lines) >= 1
        /\ \A i \in 1..Len(wrapped.lines) :
              \/ measureText(wrapped.lines[i], wrapped.size) <= 1000 * wrapped.maxW
              \/ IsWideChar(wrapped.lines[i], wrapped.size, wrapped.maxW)

\* C12 witness: wrap('aaaaaa ié', 11, 30) has split the oversized word and gone on
\* filling the line after its last chunk: 'aaaa', 'aa ié'
C12_Witness ==
    /\ wrapped.called
    /\ wrapped.maxW = 30
    /\ wrapped.lines = << <<97, 97, 97, 97>>, <<97, 97, 32, 105, 233>> >>

-----------------------------------------------------------------------------
(* Claims C13, C15: pagination *)

\* the pages made so far, the one being filled included
PagesSoFar ==
    mdPages \o (IF mdPhase = "paginate" /\ pg # <<>>
                THEN <<[items |-> pg, ys |-> ys]>> ELSE <<>>)

\* the vertical cursor after the i-th item of a page
CursorAfter(p, i) ==
    p.ys[i] - p.items[i].size - p.items[i].spaceAfter

\* C13: on every page each item but the first leaves the cursor at or above the
\* margin M; the first item of a page starts from H - M, and on every page but the
\* first it is an item that would have taken the cursor of the page before below M.
C13_CursorStaysAboveMargin ==
    \A n \in 1..Len(PagesSoFar) :
        LET p == PagesSoFar[n]
        IN  /\ Len(p.ys) = Len(p.items)
            /\ \A i \in 2..Len(p.items) :
                  /\ p.ys[i] = CursorAfter(p, i - 1) - p.items[i].spaceBefore
                  /\ CursorAfter(p, i) >= mdIn.M
            /\ p.items # <<>> => p.ys[1] = mdIn.H - mdIn.M - p.items[1].spaceBefore
            /\ (n > 1 /\ p.items # <<>>) =>
                  LET q == PagesSoFar[n - 1]
                  IN  CursorAfter(q, Len(q.items))
                        - (p.items[1].spaceBefore + p.items[1].size + p.items[1].spaceAfter)
                      < mdIn.M

\* C13 witness: pagination has ended with a second page after a page of two items
C13_Witness ==
    /\ mdPhase = "draw"
    /\ Len(mdPages) >= 2
    /\ Len(mdPages[1].items) >= 2

\* C15: the pages' items, page after page, are the items; there is at least one
\* page, and an empty one only as the single page of no items; markdown() adds a
\* page object for each and its build() returns the file.
C15_PagesPartitionItems ==
    /\ mdPhase \in {"draw", "build", "done"} =>
          /\ Concat([n \in 1..Len(mdPages) |-> mdPages[n].items]) = items
          /\ Len(mdPages) >= 1
          /\ items # <<>> => \A n \in 1..Len(mdPages) : mdPages[n].items # <<>>
          /\ items = <<>> => mdPages = <<[items |-> <<>>, ys |-> <<>>]>>
    /\ mdPhase \in {"build", "done"} => Len(pages) = Len(mdPages)
    /\ mdPhase = "done" =>
          /\ last.op = "build"
          /\ last.err = "none"
          /\ built
          /\ result # <<>>

\* C15 witness: markdown() has returned the file of a document of two pages or more
C15_Witness ==
    /\ mdPhase = "done"
    /\ Len(mdPages) >= 2
    /\ Len(pages) = Len(mdPages)

-----------------------------------------------------------------------------
(* Claim C14: blank lines *)

\* a blank spacing item
IsBlankItem(it) ==
    it.text = <<>> /\ ~it.rule

\* C14: the items do not start with a blank item and hold no two blank items in a
\* row; after a blank line that follows a block the last item is the blank item,
\* after any other line it is not.
C14_BlankLinesCollapse ==
    /\ items # <<>> => ~IsBlankItem(items[1])
    /\ \A i \in 1..(Len(items) - 1) : ~(IsBlankItem(items[i]) /\ IsBlankItem(items[i + 1]))
    /\ (prevType = "blank" /\ items # <<>>) => IsBlankItem(items[Len(items)])
    /\ prevType \notin {"blank", "start"} => (items # <<>> /\ ~IsBlankItem(items[Len(items)]))

\* C14 witness: 'a', six blank lines, 'b' has been classified into three items, the
\* second of them the blank item
C14_Witness ==
    /\ mdIn.md = <<97, 10, 10, 10, 10, 10, 10, 10, 98>>
    /\ mdPhase = "paginate"
    /\ Len(items) = 3
    /\ IsBlankItem(items[2])

-----------------------------------------------------------------------------
(* Claim C17: list items and the right margin *)

\* C17 (as claimed): the text of every list item, drawn at the indent 12, ends at or
\* before the right margin, unless the wrapped line is a single character wider
\* than the budget W - 2M - 18.
C17_ListRunsInsideColumn ==
    (wrapped.called /\ prevType = "list") =>
        \A i \in 1..Len(wrapped.lines) :
            LET it == items[Len(items) - Len(wrapped.lines) + i]
            IN  ~IsWideChar(wrapped.lines[i], 11, mdIn.W - 2 * mdIn.M - 18) =>
                    1000 * it.indent + measureText(it.text, 11)
                      <= 1000 * (mdIn.W - 2 * mdIn.M)

====
